---- MODULE Spec2Model ----
(***************************************************************************)
(* A model of the Telegram relay bot of src/bot.py (class AIBot) and       *)
(* src/bot_enhanced.py (class AIBotEnhanced): the per-user cooldown table, *)
(* the per-user statistics table and the handlers that touch them.         *)
(*                                                                         *)
(* Time is the value datetime.now() returns, in whole cooldown units. It   *)
(* is the naive local wall clock, so it may stand still, advance, or step  *)
(* backwards between two handler steps.                                    *)
(*                                                                         *)
(* A handler is a coroutine: it runs without interruption up to its next   *)
(* await, so each action below is one such segment of a handler. run()     *)
(* builds the Application without concurrent_updates and registers every   *)
(* handler as blocking, so the updates are handled one at a time: the next *)
(* handler starts when the one before it has ended. The clock moves on     *)
(* while a handler waits.                                                  *)
(*                                                                         *)
(* Three specifications. Spec: the handlers of a constructed bot whose     *)
(* Application dispatches updates to them, every await free to return or   *)
(* to raise. SpecDelivered: the same with every send to the chat           *)
(* returning, and a handler whose await has completed resumed. SpecStartup:*)
(* main() from the start of the process up to run_polling.                 *)
(***************************************************************************)
EXTENDS Integers, Sequences, FiniteSets, TLC

\* ------------------------------------------------------------------ bounds

\* The wall clock takes the values 0..MaxTime.
MaxTime == 3
\* At most MaxInteractions commands and text messages are handled in one
\* behaviour.
MaxInteractions == 3

Users == {1, 2}
Times == 0..MaxTime
\* user.username: user 1 has one, user 2 has none ("" stands for None).
Usernames == [u \in Users |-> IF u = 1 THEN "alice" ELSE ""]

\* --------------------------------------------------------------- constants

\* AIBot.cooldown_duration, in seconds.
cooldown_duration == 3
\* default_config["cooldown_seconds"].
default_cooldown_seconds == 3

\* The values config.json may give cooldown_seconds.
CooldownChoices == {0, 2, default_cooldown_seconds}

\* ------------------------------------------------------------------- state

VARIABLES
    enhanced,        \* TRUE: AIBotEnhanced is running; FALSE: AIBot
    config,          \* self.config (AIBotEnhanced)
    now,             \* the value datetime.now() returns
    user_cooldowns,  \* self.user_cooldowns: user_id -> last accepted time
    user_stats,      \* self.user_stats: user_id -> record (AIBotEnhanced)
    task,            \* the handler in flight: position, user, text to send
    accepted,        \* history: the times at which check_rate_limit accepted, per user
    n_interactions,  \* history: commands and text messages handled, per user
    sent,            \* history: the texts the handler in flight (or the last one) delivered
    last_request,    \* history: the last completion request started: whose, and when
    startup          \* main(): its position, the environment, the loaded texts

vars == <<enhanced, config, now, user_cooldowns, user_stats, task, accepted,
          n_interactions, sent, last_request, startup>>

\* load_config: the defaults, overridden by the keys of config.json.
default_config ==
    [cooldown_seconds |-> default_cooldown_seconds,
     enable_stats |-> TRUE,
     enable_typing_indicator |-> TRUE]

load_config ==
    { [cooldown_seconds |-> c, enable_stats |-> s, enable_typing_indicator |-> ti] :
        c \in CooldownChoices, s \in BOOLEAN, ti \in BOOLEAN }

idle == [pc |-> "idle", user |-> 0, msg |-> ""]

\* main() has passed run_polling: both credentials and every file present.
polling ==
    [phase |-> "polling", TELEGRAM_BOT_TOKEN |-> TRUE, OPENAI_API_KEY |-> TRUE,
     config_json |-> "present", system_prompt_txt |-> "present",
     knowledge_base_md |-> "present",
     system_prompt |-> "file", knowledge_base |-> "file"]

\* get_fallback_response.fallback_responses: the three fixed texts.
fallback_responses == {"fallback_difficulties", "fallback_connecting", "fallback_interruption"}

\* The text AIBot.get_openai_response returns when the request raised.
AIBot_apology == "apology"

\* A handler task suspended at an await, with the text it is about to send.
Suspended(position, user_id, text) == [pc |-> position, user |-> user_id, msg |-> text]

\* ---------------------------------------- faulty variants of the tracker
\* Each is one of the tracker's operations with one plausible slip; the
\* properties below are checked to fail when it takes the operation's place.

\* The comparison of check_rate_limit the wrong way round.
check_rate_limit_inverted(cd, user_id, t) ==
    IF user_id \in DOMAIN cd /\ t - cd[user_id] > config.cooldown_seconds
    THEN [ok |-> FALSE, cooldowns |-> cd]
    ELSE [ok |-> TRUE, cooldowns |-> (user_id :> t) @@ cd]

\* check_rate_limit rejecting at the boundary too (<= for <).
check_rate_limit_boundary(cd, user_id, t) ==
    IF user_id \in DOMAIN cd /\ t - cd[user_id] <= config.cooldown_seconds
    THEN [ok |-> FALSE, cooldowns |-> cd]
    ELSE [ok |-> TRUE, cooldowns |-> (user_id :> t) @@ cd]

\* check_rate_limit accepting without recording the time.
check_rate_limit_no_store(cd, user_id, t) ==
    IF user_id \in DOMAIN cd /\ t - cd[user_id] < config.cooldown_seconds
    THEN [ok |-> FALSE, cooldowns |-> cd]
    ELSE [ok |-> TRUE, cooldowns |-> cd]

\* check_rate_limit recording the time before it compares.
check_rate_limit_store_first(cd, user_id, t) ==
    IF user_id \in DOMAIN cd /\ t - cd[user_id] < config.cooldown_seconds
    THEN [ok |-> FALSE, cooldowns |-> (user_id :> t) @@ cd]
    ELSE [ok |-> TRUE, cooldowns |-> (user_id :> t) @@ cd]

\* check_rate_limit taking a stored time in the future for an expired one.
check_rate_limit_future_expired(cd, user_id, t) ==
    IF user_id \in DOMAIN cd /\ t - cd[user_id] >= 0
                             /\ t - cd[user_id] < config.cooldown_seconds
    THEN [ok |-> FALSE, cooldowns |-> cd]
    ELSE [ok |-> TRUE, cooldowns |-> (user_id :> t) @@ cd]

\* check_rate_limit keeping one time for all users.
check_rate_limit_shared_key(cd, user_id, t) ==
    IF cd # <<>> /\ \E v \in DOMAIN cd : t - cd[v] < config.cooldown_seconds
    THEN [ok |-> FALSE, cooldowns |-> cd]
    ELSE [ok |-> TRUE, cooldowns |-> [v \in DOMAIN cd \cup {user_id} |-> t]]

\* update_user_stats seeding a new record with message_count 1.
update_user_stats_seed_one(st, user_id, username, t) ==
    IF ~config.enable_stats
    THEN st
    ELSE LET created ==
                 IF user_id \in DOMAIN st
                 THEN st
                 ELSE (user_id :> [username |-> username,
                                   first_interaction |-> t,
                                   message_count |-> 1,
                                   last_interaction |-> t]) @@ st
             r == created[user_id]
         IN (user_id :> [r EXCEPT !.message_count = @ + 1,
                                  !.last_interaction = t,
                                  !.username = IF username # "" THEN username ELSE @])
            @@ created

\* update_user_stats without the enable_stats test.
update_user_stats_unconditional(st, user_id, username, t) ==
    LET created ==
            IF user_id \in DOMAIN st
            THEN st
            ELSE (user_id :> [username |-> username,
                              first_interaction |-> t,
                              message_count |-> 0,
                              last_interaction |-> t]) @@ st
        r == created[user_id]
    IN (user_id :> [r EXCEPT !.message_count = @ + 1,
                             !.last_interaction = t,
                             !.username = IF username # "" THEN username ELSE @])
       @@ created

\* update_user_stats writing first_interaction on every call.
update_user_stats_reset_first(st, user_id, username, t) ==
    IF ~config.enable_stats
    THEN st
    ELSE LET created ==
                 IF user_id \in DOMAIN st
                 THEN st
                 ELSE (user_id :> [username |-> username,
                                   first_interaction |-> t,
                                   message_count |-> 0,
                                   last_interaction |-> t]) @@ st
             r == created[user_id]
         IN (user_id :> [r EXCEPT !.message_count = @ + 1,
                                  !.first_interaction = t,
                                  !.last_interaction = t,
                                  !.username = IF username # "" THEN username ELSE @])
            @@ created

\* ------------------------------------------------------- the usage tracker

\* AIBotEnhanced.check_rate_limit: the result and the table it leaves.
check_rate_limit(cd, user_id, t) ==
    IF user_id \in DOMAIN cd /\ t - cd[user_id] < config.cooldown_seconds
    THEN [ok |-> FALSE, cooldowns |-> cd]
    ELSE [ok |-> TRUE, cooldowns |-> (user_id :> t) @@ cd]

\* AIBot.check_rate_limit: the same against the fixed cooldown_duration.
AIBot_check_rate_limit(cd, user_id, t) ==
    IF user_id \in DOMAIN cd /\ t - cd[user_id] < cooldown_duration
    THEN [ok |-> FALSE, cooldowns |-> cd]
    ELSE [ok |-> TRUE, cooldowns |-> (user_id :> t) @@ cd]

\* An update_user_stats that rebuilds the table around the one user and so
\* drops every other user's record.
update_user_stats_drop_others(st, user_id, username, t) ==
    IF ~config.enable_stats
    THEN st
    ELSE LET r == IF user_id \in DOMAIN st
                  THEN st[user_id]
                  ELSE [username |-> username,
                        first_interaction |-> t,
                        message_count |-> 0,
                        last_interaction |-> t]
         IN (user_id :> [r EXCEPT !.message_count = @ + 1,
                                  !.last_interaction = t,
                                  !.username = IF username # "" THEN username ELSE @])

\* AIBotEnhanced.update_user_stats: the table it leaves.
update_user_stats(st, user_id, username, t) ==
    IF ~config.enable_stats
    THEN st
    ELSE LET created ==
                 IF user_id \in DOMAIN st
                 THEN st
                 ELSE (user_id :> [username |-> username,
                                   first_interaction |-> t,
                                   message_count |-> 0,
                                   last_interaction |-> t]) @@ st
             r == created[user_id]
         IN (user_id :> [r EXCEPT !.message_count = @ + 1,
                                  !.last_interaction = t,
                                  !.username = IF username # "" THEN username ELSE @])
            @@ created

\* ------------------------------------------------------------ construction

\* The bot object after __init__ of either class, with both credentials
\* present, its handlers registered and dispatched to.
Init ==
    /\ enhanced \in BOOLEAN
    /\ config \in (IF enhanced THEN load_config ELSE {default_config})
    /\ now \in Times
    /\ user_cooldowns = <<>>
    /\ user_stats = <<>>
    /\ task = idle
    /\ accepted = [u \in Users |-> {}]
    /\ n_interactions = [u \in Users |-> 0]
    /\ sent = <<>>
    /\ last_request = [user |-> 0, time |-> 0]
    /\ startup = polling

\* ---------------------------------------------------------- the wall clock

Tick ==
    /\ now < MaxTime
    /\ now' = now + 1
    /\ UNCHANGED <<enhanced, config, user_cooldowns, user_stats, task, accepted, n_interactions, sent, last_request, startup>>

\* The wall clock is set back (a clock correction, the end of summer time).
ClockStepBack ==
    /\ \E t \in Times : t < now /\ now' = t
    /\ UNCHANGED <<enhanced, config, user_cooldowns, user_stats, task, accepted, n_interactions, sent, last_request, startup>>

\* ------------------------------------------------- AIBotEnhanced: commands

InteractionsLeft ==
    n_interactions[1] + n_interactions[2] < MaxInteractions

Counted(user_id) == [n_interactions EXCEPT ![user_id] = @ + 1]

\* Commands put under the rate limit of the text messages.
plain_command_limited(user_id, text) ==
    /\ enhanced
    /\ task.pc = "idle"
    /\ InteractionsLeft
    /\ LET r == check_rate_limit(user_cooldowns, user_id, now)
       IN /\ user_cooldowns' = r.cooldowns
          /\ task' = Suspended("reply", user_id, IF r.ok THEN text ELSE "wait")
    /\ user_stats' = update_user_stats(user_stats, user_id, Usernames[user_id], now)
    /\ n_interactions' = Counted(user_id)
    /\ sent' = <<>>
    /\ UNCHANGED <<enhanced, config, now, accepted, last_request, startup>>

\* start_command, help_command and about_command up to their reply_text:
\* count the interaction, then send the fixed text.
plain_command(user_id, text) ==
    /\ enhanced
    /\ task.pc = "idle"
    /\ InteractionsLeft
    /\ user_stats' = update_user_stats(user_stats, user_id, Usernames[user_id], now)
    /\ task' = Suspended("reply", user_id, text)
    /\ n_interactions' = Counted(user_id)
    /\ sent' = <<>>
    /\ UNCHANGED <<enhanced, config, now, user_cooldowns, accepted, last_request, startup>>

start_command(user_id) == plain_command(user_id, "welcome")

help_command(user_id) == plain_command(user_id, "help")

about_command(user_id) == plain_command(user_id, "about")

\* stats_command up to its reply_text.
stats_command(user_id) ==
    /\ enhanced
    /\ task.pc = "idle"
    /\ InteractionsLeft
    /\ n_interactions' = Counted(user_id)
    /\ IF ~config.enable_stats
       THEN /\ task' = Suspended("reply", user_id, "stats_disabled")
            /\ UNCHANGED user_stats
       ELSE LET st == update_user_stats(user_stats, user_id, Usernames[user_id], now)
            IN /\ user_stats' = st
               /\ task' = Suspended("reply", user_id,
                                    IF user_id \in DOMAIN st THEN "stats" ELSE "no_stats")
    /\ sent' = <<>>
    /\ UNCHANGED <<enhanced, config, now, user_cooldowns, accepted, last_request, startup>>

\* ------------------------------------------- AIBotEnhanced: text messages

\* A handle_message whose wait notice is not followed by a return: the
\* rejected message goes on to the completion request.
handle_message_no_return(user_id) ==
    /\ enhanced
    /\ task.pc = "idle"
    /\ InteractionsLeft
    /\ LET r == check_rate_limit(user_cooldowns, user_id, now)
       IN /\ user_stats' = update_user_stats(user_stats, user_id, Usernames[user_id], now)
          /\ user_cooldowns' = r.cooldowns
          /\ accepted' = IF r.ok THEN [accepted EXCEPT ![user_id] = @ \cup {now}]
                          ELSE accepted
          /\ task' = IF config.enable_typing_indicator
                     THEN Suspended("typing", user_id, "")
                     ELSE Suspended("completion", user_id, "")
          /\ last_request' = IF ~config.enable_typing_indicator
                              THEN [user |-> user_id, time |-> now]
                              ELSE last_request
    /\ n_interactions' = Counted(user_id)
    /\ sent' = <<>>
    /\ UNCHANGED <<enhanced, config, now, startup>>

\* handle_message up to its first await: the statistics, the rate-limit
\* check, then the wait notice, the typing action or the completion request.
handle_message(user_id) ==
    /\ enhanced
    /\ task.pc = "idle"
    /\ InteractionsLeft
    /\ LET r == check_rate_limit(user_cooldowns, user_id, now)
       IN /\ user_stats' = update_user_stats(user_stats, user_id, Usernames[user_id], now)
          /\ user_cooldowns' = r.cooldowns
          /\ accepted' = IF r.ok THEN [accepted EXCEPT ![user_id] = @ \cup {now}]
                          ELSE accepted
          /\ task' = IF ~r.ok THEN Suspended("reply", user_id, "wait")
                     ELSE IF config.enable_typing_indicator
                          THEN Suspended("typing", user_id, "")
                          ELSE Suspended("completion", user_id, "")
          /\ last_request' = IF r.ok /\ ~config.enable_typing_indicator
                              THEN [user |-> user_id, time |-> now]
                              ELSE last_request
    /\ n_interactions' = Counted(user_id)
    /\ sent' = <<>>
    /\ UNCHANGED <<enhanced, config, now, startup>>

\* ------------------------------------------------------------------ AIBot

\* AIBot.start_command and AIBot.help_command: the fixed text, nothing else.
\* AIBot registers no other command; any other command matches no handler.
AIBot_command(user_id, text) ==
    /\ ~enhanced
    /\ task.pc = "idle"
    /\ InteractionsLeft
    /\ task' = Suspended("reply", user_id, text)
    /\ n_interactions' = Counted(user_id)
    /\ sent' = <<>>
    /\ UNCHANGED <<enhanced, config, now, user_cooldowns, user_stats, accepted, last_request, startup>>

AIBot_start_command(user_id) == AIBot_command(user_id, "welcome")

AIBot_help_command(user_id) == AIBot_command(user_id, "help")

\* AIBot.handle_message up to its first await.
AIBot_handle_message(user_id) ==
    /\ ~enhanced
    /\ task.pc = "idle"
    /\ InteractionsLeft
    /\ LET r == AIBot_check_rate_limit(user_cooldowns, user_id, now)
       IN /\ user_cooldowns' = r.cooldowns
          /\ accepted' = IF r.ok THEN [accepted EXCEPT ![user_id] = @ \cup {now}]
                          ELSE accepted
          /\ task' = IF ~r.ok THEN Suspended("reply", user_id, "wait")
                     ELSE Suspended("typing", user_id, "")
    /\ n_interactions' = Counted(user_id)
    /\ sent' = <<>>
    /\ UNCHANGED <<enhanced, config, now, user_stats, last_request, startup>>

\* ------------------------------------- both classes: after the first await

\* A handler that ends after the typing action, with no request and no
\* reply.
typing_sent_returns ==
    /\ task.pc = "typing"
    /\ task' = idle
    /\ UNCHANGED <<enhanced, config, now, user_cooldowns, user_stats, accepted, n_interactions, sent, last_request, startup>>

\* send_chat_action returns: get_openai_response starts its request.
typing_sent ==
    /\ task.pc = "typing"
    /\ task' = [task EXCEPT !.pc = "completion"]
    /\ last_request' = [user |-> task.user, time |-> now]
    /\ UNCHANGED <<enhanced, config, now, user_cooldowns, user_stats, accepted, n_interactions, sent, startup>>

\* send_chat_action raises: the handler ends, the error handler logs.
typing_raises ==
    /\ task.pc = "typing"
    /\ task' = idle
    /\ UNCHANGED <<enhanced, config, now, user_cooldowns, user_stats, accepted, n_interactions, sent, last_request, startup>>

\* The request of get_openai_response ends: chat.completions.create
\* returns a response, or it raises.
completion_request(outcome) ==
    /\ task.pc = "completion"
    /\ task' = [task EXCEPT !.pc = "completed", !.msg = outcome]
    /\ UNCHANGED <<enhanced, config, now, user_cooldowns, user_stats, accepted, n_interactions, sent, last_request, startup>>

\* A get_openai_response that lets the exception of the request through:
\* handle_message's except branch sends its error text.
get_openai_response_reraise(drawn) ==
    /\ enhanced
    /\ task.pc = "completed"
    /\ task' = [task EXCEPT !.pc = "reply",
                            !.msg = IF task.msg = "response" THEN "answer" ELSE "error"]
    /\ UNCHANGED <<enhanced, config, now, user_cooldowns, user_stats, accepted, n_interactions, sent, last_request, startup>>

\* A get_openai_response that gives the user the cooldown slot back when
\* the request raised.
get_openai_response_rollback(drawn) ==
    /\ enhanced
    /\ task.pc = "completed"
    /\ task' = [task EXCEPT !.pc = "reply",
                            !.msg = IF task.msg = "response" THEN "answer" ELSE drawn]
    /\ user_cooldowns' = IF task.msg = "response" THEN user_cooldowns
                         ELSE [v \in DOMAIN user_cooldowns \ {task.user}
                                  |-> user_cooldowns[v]]
    /\ UNCHANGED <<enhanced, config, now, user_stats, accepted, n_interactions, sent, last_request, startup>>

\* AIBotEnhanced.get_openai_response after its await, up to the reply_text
\* of handle_message: the answer, or the text get_fallback_response draws
\* (random.choice: any member of fallback_responses).
get_openai_response(drawn) ==
    /\ enhanced
    /\ task.pc = "completed"
    /\ task' = [task EXCEPT !.pc = "reply",
                            !.msg = IF task.msg = "response" THEN "answer" ELSE drawn]
    /\ UNCHANGED <<enhanced, config, now, user_cooldowns, user_stats, accepted, n_interactions, sent, last_request, startup>>

\* AIBot.get_openai_response after its await: the answer, or its one
\* apology text.
AIBot_get_openai_response ==
    /\ ~enhanced
    /\ task.pc = "completed"
    /\ task' = [task EXCEPT !.pc = "reply",
                            !.msg = IF task.msg = "response" THEN "answer" ELSE AIBot_apology]
    /\ UNCHANGED <<enhanced, config, now, user_cooldowns, user_stats, accepted, n_interactions, sent, last_request, startup>>

\* reply_text returns: the handler ends.
reply_sent ==
    /\ task.pc = "reply"
    /\ task' = idle
    /\ sent' = Append(sent, task.msg)
    /\ UNCHANGED <<enhanced, config, now, user_cooldowns, user_stats, accepted, n_interactions, last_request, startup>>

\* reply_text raises: inside handle_message's try the handler sends the
\* error text instead; anywhere else the handler ends.
reply_raises ==
    /\ task.pc = "reply"
    /\ task' = IF task.msg \in {"answer", AIBot_apology} \cup fallback_responses
               THEN Suspended("reply", task.user, "error")
               ELSE idle
    /\ UNCHANGED <<enhanced, config, now, user_cooldowns, user_stats, accepted, n_interactions, sent, last_request, startup>>

Next ==
    \/ Tick
    \/ ClockStepBack
    \/ \E u \in Users :
          \/ start_command(u)
          \/ help_command(u)
          \/ about_command(u)
          \/ stats_command(u)
          \/ handle_message(u)
          \/ AIBot_start_command(u)
          \/ AIBot_help_command(u)
          \/ AIBot_handle_message(u)
    \/ typing_sent
    \/ typing_raises
    \/ completion_request("response")
    \/ completion_request("exception")
    \/ \E drawn \in fallback_responses : get_openai_response(drawn)
    \/ AIBot_get_openai_response
    \/ reply_sent
    \/ reply_raises

Spec == Init /\ [][Next]_vars

\* ------------------------------------------- when every send to the chat succeeds

\* The steps that take a handler in flight on from an await that returned
\* (for the completion request: returned or raised).
Continue ==
    \/ typing_sent
    \/ completion_request("response")
    \/ completion_request("exception")
    \/ \E drawn \in fallback_responses : get_openai_response(drawn)
    \/ AIBot_get_openai_response
    \/ reply_sent

\* Next without typing_raises and reply_raises.
NextDelivered ==
    \/ Tick
    \/ ClockStepBack
    \/ \E u \in Users :
          \/ start_command(u)
          \/ help_command(u)
          \/ about_command(u)
          \/ stats_command(u)
          \/ handle_message(u)
          \/ AIBot_start_command(u)
          \/ AIBot_help_command(u)
          \/ AIBot_handle_message(u)
    \/ Continue

\* The event loop resumes a coroutine whose await has completed, and the
\* clients' time-outs complete every await.
SpecDelivered == Init /\ [][NextDelivered]_vars /\ WF_vars(Continue)

\* ------------------------------------------------ main(): up to run_polling

\* What open() finds at a path.
Files == {"present", "missing", "unreadable"}

\* The process is started: any environment, any files, no bot object yet.
InitMain ==
    /\ enhanced \in BOOLEAN
    /\ config = default_config
    /\ now \in Times
    /\ user_cooldowns = <<>>
    /\ user_stats = <<>>
    /\ task = idle
    /\ accepted = [u \in Users |-> {}]
    /\ n_interactions = [u \in Users |-> 0]
    /\ sent = <<>>
    /\ last_request = [user |-> 0, time |-> 0]
    /\ startup \in [phase : {"main"},
                     TELEGRAM_BOT_TOKEN : BOOLEAN, OPENAI_API_KEY : BOOLEAN,
                     config_json : Files, system_prompt_txt : Files,
                     knowledge_base_md : Files,
                     system_prompt : {"unset"}, knowledge_base : {"unset"}]

\* load_config on the file found: its keys over the defaults, or the
\* defaults when open or json.load raises.
read_config(file) == IF file = "present" THEN load_config ELSE {default_config}

\* load_system_prompt: the file's text, or the default prompt.
load_system_prompt(file) == IF file = "present" THEN "file" ELSE "default"

\* load_knowledge_base: the file's text, or None.
load_knowledge_base(file) == IF file = "present" THEN "file" ELSE "none"

\* The three loaders of __init__ have run.
Constructed ==
    [startup EXCEPT !.phase = "constructed",
                    !.system_prompt = load_system_prompt(startup.system_prompt_txt),
                    !.knowledge_base = load_knowledge_base(startup.knowledge_base_md)]

\* AIBotEnhanced.__init__ called by main: ValueError when a credential is
\* missing (main logs and re-raises), else the loaders.
AIBotEnhanced_init ==
    /\ enhanced
    /\ startup.phase = "main"
    /\ IF ~startup.TELEGRAM_BOT_TOKEN \/ ~startup.OPENAI_API_KEY
       THEN /\ startup' = [startup EXCEPT !.phase = "aborted"]
            /\ UNCHANGED config
       ELSE /\ config' \in read_config(startup.config_json)
            /\ startup' = Constructed
    /\ UNCHANGED <<enhanced, now, user_cooldowns, user_stats, task, accepted, n_interactions, sent, last_request>>

\* AIBot.__init__ called by main: it has no config.json.
AIBot_init ==
    /\ ~enhanced
    /\ startup.phase = "main"
    /\ startup' = IF ~startup.TELEGRAM_BOT_TOKEN \/ ~startup.OPENAI_API_KEY
                  THEN [startup EXCEPT !.phase = "aborted"]
                  ELSE Constructed
    /\ UNCHANGED <<enhanced, config, now, user_cooldowns, user_stats, task, accepted, n_interactions, sent, last_request>>

\* AIBotEnhanced.run: asyncio.create_task is called with no running event
\* loop and raises RuntimeError before any handler is added; main logs
\* and re-raises.
run ==
    /\ enhanced
    /\ startup.phase = "constructed"
    /\ startup' = [startup EXCEPT !.phase = "crashed"]
    /\ UNCHANGED <<enhanced, config, now, user_cooldowns, user_stats, task, accepted, n_interactions, sent, last_request>>

\* AIBot.run: the handlers are added and run_polling is entered.
AIBot_run ==
    /\ ~enhanced
    /\ startup.phase = "constructed"
    /\ startup' = [startup EXCEPT !.phase = "polling"]
    /\ UNCHANGED <<enhanced, config, now, user_cooldowns, user_stats, task, accepted, n_interactions, sent, last_request>>

NextStartup ==
    \/ AIBotEnhanced_init
    \/ AIBot_init
    \/ run
    \/ AIBot_run

SpecStartup == InitMain /\ [][NextStartup]_vars

\* ------------------------------------------------ reading a step off the state

\* The cooldown in force.
Cooldown == IF enhanced THEN config.cooldown_seconds ELSE cooldown_duration

StatsOn == enhanced /\ config.enable_stats

\* This step is the first segment of a handler for user_id.
Started(user_id) == task.pc = "idle" /\ task'.pc # "idle" /\ task'.user = user_id

\* This step is a text message of user_id that the rate-limit check accepted.
AcceptedStep(user_id) == Started(user_id) /\ task'.pc \in {"typing", "completion"}

\* This step is a text message of user_id that the rate-limit check rejected.
RejectedStep(user_id) == Started(user_id) /\ task'.pc = "reply" /\ task'.msg = "wait"

MessageStep(user_id) == AcceptedStep(user_id) \/ RejectedStep(user_id)

\* This step is a /stats command of user_id.
StatsStep(user_id) ==
    Started(user_id) /\ task'.pc = "reply" /\ task'.msg \in {"stats", "no_stats", "stats_disabled"}

\* This step is a command of user_id.
CommandStep(user_id) ==
    \/ StatsStep(user_id)
    \/ Started(user_id) /\ task'.pc = "reply" /\ task'.msg \in {"welcome", "help", "about"}

\* message_count of user_id in table st; 0 without a record.
Count(st, user_id) == IF user_id \in DOMAIN st THEN st[user_id].message_count ELSE 0

\* The entry of user_id in a table, as a sequence of length 0 or 1.
Entry(table, user_id) == IF user_id \in DOMAIN table THEN <<table[user_id]>> ELSE <<>>

\* ------------------------------------------------------------- properties

\* C1: a text message of user U handled at time t2 is rejected whenever a
\* check for U was accepted at some t1 < t2 with t2 - t1 < cooldown.
C1_RejectedWithinCooldown ==
    [][\A u \in Users :
          (MessageStep(u) /\ \E t1 \in accepted[u] : t1 < now /\ now - t1 < Cooldown)
              => RejectedStep(u)]_vars

\* A message was rejected one time unit after an accepted one, within a
\* cooldown of two or three.
C1_Witness ==
    /\ task.pc = "reply" /\ task.msg = "wait"
    /\ Cooldown >= 2
    /\ now - 1 \in accepted[task.user]

\* C2, as claimed: a text message of user U handled at time t2 is accepted
\* whenever a check for U was accepted at some t1 < t2 with
\* t2 - t1 >= cooldown, whatever was accepted in between.
C2_AcceptedAfterAnyAccept ==
    [][\A u \in Users :
          (MessageStep(u) /\ \E t1 \in accepted[u] : t1 < now /\ now - t1 >= Cooldown)
              => AcceptedStep(u)]_vars

\* C2, amended: a text message of user U handled at time t2 is accepted
\* whenever a check for U was accepted at some t1 < t2 and every time at
\* which a check for U has been accepted lies at least cooldown before t2.
C2_AcceptedAfterCooldown ==
    [][\A u \in Users :
          (/\ MessageStep(u)
           /\ \E t1 \in accepted[u] : t1 < now
           /\ \A t \in accepted[u] : now - t >= Cooldown)
              => AcceptedStep(u)]_vars

\* A message was accepted exactly one positive cooldown after the accepted
\* message before it.
C2_Witness ==
    /\ task.pc \in {"typing", "completion"}
    /\ Cooldown > 0
    /\ now \in accepted[task.user]
    /\ now - Cooldown \in accepted[task.user]
    /\ user_cooldowns[task.user] = now

\* C3, as claimed: no text message of user U is accepted at an instant at
\* which a check for U has already been accepted.
C3_NoDoubleAccept ==
    [][\A u \in Users : AcceptedStep(u) => now \notin accepted[u]]_vars

\* C3, amended: once a check for U has been accepted, every later check for U
\* finds U's timestamp in the table; and with a positive cooldown no text
\* message of U is accepted at an instant at which one has been accepted.
C3_NoDoubleAcceptPositiveCooldown ==
    [][\A u \in Users :
          MessageStep(u) =>
              /\ accepted[u] # {} => u \in DOMAIN user_cooldowns
              /\ (AcceptedStep(u) /\ Cooldown > 0) => now \notin accepted[u]]_vars

\* With a positive cooldown, a second message of a user was rejected at the
\* very instant the first was accepted.
C3_Witness ==
    /\ task.pc = "reply" /\ task.msg = "wait"
    /\ Cooldown > 0
    /\ user_cooldowns[task.user] = now
    /\ accepted[task.user] = {now}

\* C4, as claimed: with statistics enabled, a step changes a user's
\* message_count by one if it is a command or an accepted text message of
\* that user, and leaves it unchanged otherwise (a rejected message included).
C4_CountsAcceptedOnly ==
    [][StatsOn =>
          \A u \in Users :
              Count(user_stats', u) - Count(user_stats, u) =
                  IF AcceptedStep(u) \/ CommandStep(u) THEN 1 ELSE 0]_vars

\* C4, amended: with statistics enabled, a step changes a user's
\* message_count by one if it is a command or a text message of that user,
\* accepted or rejected, and leaves it unchanged otherwise.
C4_CountsEveryInteraction ==
    [][StatsOn =>
          \A u \in Users :
              Count(user_stats', u) - Count(user_stats, u) =
                  IF MessageStep(u) \/ CommandStep(u) THEN 1 ELSE 0]_vars

\* A user's rejected message has been counted: one accepted time, three
\* interactions, message_count 3.
C4_Witness ==
    /\ StatsOn
    /\ task.pc = "reply" /\ task.msg = "wait"
    /\ Cardinality(accepted[task.user]) = 1
    /\ Cooldown > 0
    /\ Count(user_stats, task.user) = 3

\* C5: a text message of user U changes the cooldown table only when the
\* check accepts, and then only by setting U's time to now; with statistics
\* enabled it counts the message and keeps or sets the username whether the
\* check accepts or not; without statistics it leaves the statistics table
\* alone.
C5_CheckFrame ==
    [][\A u \in Users :
          MessageStep(u) =>
              /\ RejectedStep(u) => user_cooldowns' = user_cooldowns
              /\ AcceptedStep(u) => user_cooldowns' = (u :> now) @@ user_cooldowns
              /\ StatsOn =>
                    /\ u \in DOMAIN user_stats'
                    /\ user_stats'[u].message_count = Count(user_stats, u) + 1
                    /\ user_stats'[u].last_interaction = now
                    /\ user_stats'[u].username =
                          IF Usernames[u] # "" \/ u \notin DOMAIN user_stats
                          THEN Usernames[u]
                          ELSE user_stats[u].username
              /\ ~StatsOn => user_stats' = user_stats]_vars

\* A rejected message left the user's cooldown time where it was, before
\* now, and was recorded in the statistics as seen now.
C5_Witness ==
    /\ StatsOn
    /\ task.pc = "reply" /\ task.msg = "wait"
    /\ user_cooldowns[task.user] < now
    /\ user_stats[task.user].last_interaction = now
    /\ user_stats[task.user].first_interaction < now

\* C6, as claimed: a /stats command leaves the statistics table unchanged,
\* and for a user without a record it answers that there are no statistics.
C6_StatsReadOnly ==
    [][\A u \in Users :
          StatsStep(u) =>
              /\ user_stats' = user_stats
              /\ (config.enable_stats /\ u \notin DOMAIN user_stats)
                     => task'.msg = "no_stats"]_vars

\* C7: with statistics disabled the statistics table stays empty and /stats
\* never reports a record, and a text message is accepted exactly when the
\* user has no stored time or the stored time lies at least cooldown back.
C7_StatsDisabled ==
    /\ []((enhanced /\ ~config.enable_stats) =>
             /\ user_stats = <<>>
             /\ task.msg \notin {"stats", "no_stats"})
    /\ [][(enhanced /\ ~config.enable_stats) =>
             \A u \in Users :
                 MessageStep(u) =>
                     (AcceptedStep(u) <=>
                         (u \notin DOMAIN user_cooldowns
                          \/ now - user_cooldowns[u] >= Cooldown))]_vars

\* With statistics disabled, a user sent an accepted message, then a
\* rejected one, then /stats, and was told statistics are disabled.
C7_Witness ==
    /\ enhanced /\ ~config.enable_stats
    /\ task.pc = "reply" /\ task.msg = "stats_disabled"
    /\ n_interactions[task.user] = 3
    /\ Cardinality(accepted[task.user]) = 1
    /\ Cooldown > 0
    /\ user_stats = <<>>

\* C8: with statistics enabled, a user has a record exactly when
\* update_user_stats has been called for that user, its message_count is the
\* number of those calls, and its first_interaction is the time of the first
\* call and never changes.
C8_CountIsCalls ==
    /\ [](StatsOn =>
             \A u \in Users :
                 /\ u \in DOMAIN user_stats <=> n_interactions[u] > 0
                 /\ Count(user_stats, u) = n_interactions[u])
    /\ [][\A u \in Users :
             /\ u \in DOMAIN user_stats =>
                   /\ u \in DOMAIN user_stats'
                   /\ user_stats'[u].first_interaction = user_stats[u].first_interaction
             /\ (u \notin DOMAIN user_stats /\ u \in DOMAIN user_stats') =>
                   user_stats'[u].first_interaction = now]_vars

\* Three calls for one user, the last at a later time than the first.
C8_Witness ==
    /\ StatsOn
    /\ \E u \in DOMAIN user_stats :
          /\ n_interactions[u] = 3
          /\ user_stats[u].message_count = 3
          /\ user_stats[u].first_interaction < user_stats[u].last_interaction

\* C9, as claimed: every record has first_interaction <= last_interaction
\* and message_count >= 0, and no step decreases a message_count.
C9_RecordInvariant ==
    /\ [](\A u \in DOMAIN user_stats :
             /\ user_stats[u].first_interaction <= user_stats[u].last_interaction
             /\ user_stats[u].message_count >= 0)
    /\ [][\A u \in Users : Count(user_stats', u) >= Count(user_stats, u)]_vars

\* C10: a command or text message of user A changes neither the cooldown
\* time nor the statistics record of another user B, and the first text
\* message of a user is accepted whatever the other users have done.
C10_NoCrossUser ==
    [][\A a \in Users :
          /\ (MessageStep(a) \/ CommandStep(a)) =>
                \A b \in Users \ {a} :
                    /\ Entry(user_cooldowns', b) = Entry(user_cooldowns, b)
                    /\ Entry(user_stats', b) = Entry(user_stats, b)
          /\ (MessageStep(a) /\ accepted[a] = {}) => AcceptedStep(a)]_vars

\* Under a positive cooldown both users were accepted at the same time.
C10_Witness ==
    /\ Cooldown > 0
    /\ accepted[1] = {now}
    /\ accepted[2] = {now}
    /\ user_cooldowns = [u \in Users |-> now]

\* ------------------------------------------------------------------ C11

Abs(n) == IF n < 0 THEN 0 - n ELSE n

\* The condition under which check_rate_limit accepts, read off the state
\* before the step.
CheckAccepts(user_id) ==
    \/ user_id \notin DOMAIN user_cooldowns
    \/ now - user_cooldowns[user_id] >= Cooldown

\* A completion request of the user starts in this step.
RequestStarts(user_id) ==
    task.pc # "completion" /\ task'.pc = "completion" /\ task'.user = user_id

\* A handler reaches the typing action or the completion request only from
\* a check that accepted, and a rejected message only ever sends its text.
CompletionOnlyAfterAccept ==
    \A u \in Users :
        /\ Started(u) /\ task'.pc \in {"typing", "completion"}
              => CheckAccepts(u) /\ Entry(user_cooldowns', u) = <<now>>
        /\ task'.pc = "typing" /\ task.pc # "typing" => task.pc = "idle"
        /\ RequestStarts(u) => task.pc = "typing" \/ Started(u)
        /\ task.pc = "reply" /\ task.msg = "wait" => task'.pc \in {"reply", "idle"}

\* C11 as stated: the completion client is called only after an accepted
\* check, a rejected message gets the wait notice and no completion, and
\* two completion requests of one user start at least the cooldown apart.
C11_RequestsCooldownApart ==
    [][/\ CompletionOnlyAfterAccept
       /\ \A u \in Users :
             RequestStarts(u) /\ last_request.user = u
                 => Abs(now - last_request.time) >= Cooldown]_vars

\* C11, amended: the completion client is called only after an accepted
\* check, a rejected message gets the wait notice and no completion, and
\* the accepted checks of one user (not the requests, which start after the
\* awaited typing action) are at least the cooldown apart.
C11_AcceptedChecksCooldownApart ==
    /\ [](\A u \in Users : \A t1, t2 \in accepted[u] :
              t1 # t2 => Abs(t2 - t1) >= Cooldown)
    /\ [][CompletionOnlyAfterAccept]_vars

\* A second completion request of one user has started, its check exactly
\* the cooldown after the first accepted check.
C11_Witness ==
    /\ task.pc = "completion"
    /\ last_request = [user |-> task.user, time |-> now]
    /\ Cooldown > 0
    /\ Cardinality(accepted[task.user]) = 2
    /\ now - Cooldown \in accepted[task.user]

\* ------------------------------------------------------------------ C12

\* The texts get_openai_response of the running class returns on failure.
Fallbacks == IF enhanced THEN fallback_responses ELSE {AIBot_apology}

\* C12: when the completion request raises, get_openai_response does not
\* raise to the handler: it returns one member of the fixed fallback set,
\* the handler goes on to reply_text with that text, and what reply_text
\* delivers is that text and nothing before it.
C12_FallbackOnFailure ==
    [][/\ task.pc = "completed" /\ task.msg = "exception" /\ task' # task
           => /\ task'.pc = "reply"
              /\ task'.user = task.user
              /\ task'.msg \in Fallbacks
              /\ sent' = <<>>
       /\ task.pc = "reply" /\ task.msg \in Fallbacks /\ sent' # sent
           => sent' = <<task.msg>>]_vars

\* A fallback text was delivered to the chat.
C12_Witness ==
    /\ task = idle
    /\ \E text \in Fallbacks : sent = <<text>>

\* ------------------------------------------------------------------ C13

\* C13 as stated: a missing credential is the only fatal error. With one
\* absent, construction aborts and nothing runs; with both present, main
\* goes through construction and run to polling whatever the three files
\* are, the defaults standing in for a missing or unreadable file.
C13_OnlyCredentialsFatal ==
    LET both == startup.TELEGRAM_BOT_TOKEN /\ startup.OPENAI_API_KEY
        built == startup.phase \in {"constructed", "polling"}
    IN /\ ~both => startup.phase \in {"main", "aborted"}
       /\ both => startup.phase \in {"main", "constructed", "polling"}
       /\ built /\ startup.config_json # "present" => config = default_config
       /\ built /\ startup.system_prompt_txt # "present"
              => startup.system_prompt = "default"
       /\ built /\ startup.knowledge_base_md # "present"
              => startup.knowledge_base = "none"

\* ------------------------------------------------------------------ C14

\* C14: with statistics enabled, the first interaction of a user, whatever
\* its kind (/start, /help, /about, /stats, a text message accepted or
\* rate-limited), leaves the user with a record; a record appears only in a
\* handler of its own user; and no step removes a record: the set of users
\* with a record only grows.
C14_RecordsOnlyGrow ==
    [][\A u \in Users :
          /\ StatsOn /\ (CommandStep(u) \/ MessageStep(u)) => u \in DOMAIN user_stats'
          /\ u \in DOMAIN user_stats => u \in DOMAIN user_stats'
          /\ u \notin DOMAIN user_stats /\ u \in DOMAIN user_stats'
                => /\ CommandStep(u) \/ MessageStep(u)
                   /\ n_interactions[u] = 0
                   /\ StatsOn]_vars

\* /stats is the first interaction of a user and has created the record,
\* while the other user's record, two interactions old, is still there.
C14_Witness ==
    /\ StatsOn
    /\ task.pc = "reply" /\ task.msg = "stats"
    /\ n_interactions[task.user] = 1
    /\ task.user \in DOMAIN user_stats
    /\ \E v \in DOMAIN user_stats : v # task.user /\ user_stats[v].message_count = 2

\* ------------------------------------------------------------------ C15

RECURSIVE Latest(_)
\* The latest of a non-empty set of times.
Latest(times) ==
    LET t == CHOOSE x \in times : TRUE
    IN IF times = {t} THEN t
       ELSE LET rest == Latest(times \ {t}) IN IF t > rest THEN t ELSE rest

\* C15: a rejected check leaves the stored time of its user as it was, so
\* the stored time is always that of the user's last accepted check, and a
\* message that comes once the cooldown has passed since then is accepted,
\* however many rejected attempts came in between.
C15_WindowFromLastAccepted ==
    /\ [](\A u \in Users :
              /\ u \in DOMAIN user_cooldowns <=> accepted[u] # {}
              /\ u \in DOMAIN user_cooldowns
                    => user_cooldowns[u] = Latest(accepted[u]))
    /\ [][\A u \in Users :
             /\ RejectedStep(u)
                   => /\ Entry(user_cooldowns', u) = Entry(user_cooldowns, u)
                      /\ accepted'[u] = accepted[u]
             /\ MessageStep(u) /\ u \in DOMAIN user_cooldowns
                            /\ now - Latest(accepted[u]) >= Cooldown
                   => AcceptedStep(u)]_vars

\* A message sent during the cooldown, some time after the one accepted
\* check of its user, was rejected, and the stored time is still that of
\* the accepted check.
C15_Witness ==
    /\ task.pc = "reply" /\ task.msg = "wait"
    /\ \E t \in Times :
          /\ accepted[task.user] = {t}
          /\ user_cooldowns[task.user] = t
          /\ t < now
    /\ n_interactions[task.user] = 3

\* ------------------------------------------------------------------ C16

\* C16: with a cooldown that is not negative, no step lowers or removes the
\* stored time of a user, the wall clock stepping backwards included: a
\* check at a time before the stored one is rejected and stores nothing.
C16_StoredTimeNeverDecreases ==
    [][Cooldown >= 0 =>
          \A u \in Users :
              /\ u \in DOMAIN user_cooldowns
                    => /\ u \in DOMAIN user_cooldowns'
                       /\ user_cooldowns'[u] >= user_cooldowns[u]
              /\ MessageStep(u) /\ u \in DOMAIN user_cooldowns
                            /\ now < user_cooldowns[u]
                    => /\ RejectedStep(u)
                       /\ user_cooldowns' = user_cooldowns]_vars

\* The clock was set back behind the stored time of a user, whose message
\* was then rejected, the stored time staying ahead of the clock.
C16_Witness ==
    /\ task.pc = "reply" /\ task.msg = "wait"
    /\ now < user_cooldowns[task.user]

\* ------------------------------------------------------------------ C17

\* The last handler to end was a text message of user_id whose completion
\* failed, and it delivered a fallback text.
FallbackDelivered(user_id) ==
    /\ task = idle
    /\ last_request.user = user_id
    /\ \E text \in Fallbacks : sent = <<text>>

\* C17: an accepted message keeps its cooldown slot when the completion
\* fails. No step of a handler after its check touches the cooldown table,
\* so while the fallback or error text is on its way the stored time is
\* still the accepted one, and the next message of the user, within the
\* cooldown after a fallback reply, is rejected.
C17_FailureKeepsSlot ==
    /\ [](task.pc = "reply" /\ task.msg \in Fallbacks \cup {"error"}
              => /\ task.user \in DOMAIN user_cooldowns
                 /\ user_cooldowns[task.user] \in accepted[task.user])
    /\ [][/\ task.pc # "idle" => user_cooldowns' = user_cooldowns
          /\ \A u \in Users :
                /\ FallbackDelivered(u)
                /\ MessageStep(u)
                /\ now - user_cooldowns[u] < Cooldown
                => RejectedStep(u)]_vars

\* A fallback text was delivered to a user whose stored time, that of the
\* message the completion failed for, still lies within the cooldown.
C17_Witness ==
    \E u \in Users :
        /\ FallbackDelivered(u)
        /\ user_cooldowns[u] < now
        /\ now - user_cooldowns[u] < Cooldown

\* ------------------------------------------------------------------ C18

\* Every command of the running class can be handled for user_id now.
CommandsEnabled(user_id) ==
    IF enhanced
    THEN /\ ENABLED start_command(user_id)
         /\ ENABLED help_command(user_id)
         /\ ENABLED about_command(user_id)
         /\ ENABLED stats_command(user_id)
    ELSE /\ ENABLED AIBot_start_command(user_id)
         /\ ENABLED AIBot_help_command(user_id)

\* C18: commands are outside the rate limit. A command leaves the cooldown
\* table as it is; whatever the table holds, every command can be taken up
\* as soon as no handler is in flight; and whether a text message is
\* rejected depends on the table and the clock alone, so not on the
\* commands before it.
C18_CommandsNotRateLimited ==
    /\ [](\A u \in Users : task.pc = "idle" /\ InteractionsLeft => CommandsEnabled(u))
    /\ [][\A u \in Users :
             /\ CommandStep(u) => /\ user_cooldowns' = user_cooldowns
                                  /\ accepted' = accepted
             /\ MessageStep(u) => (RejectedStep(u) <=> ~CheckAccepts(u))]_vars

\* A command of a user whose cooldown is running is being answered with the
\* command's text.
C18_Witness ==
    /\ task.pc = "reply"
    /\ task.msg \in {"welcome", "help", "about", "stats"}
    /\ task.user \in DOMAIN user_cooldowns
    /\ now - user_cooldowns[task.user] < Cooldown

\* ------------------------------------------------------------------ C19

\* The handler in flight is that of an accepted text message, before its
\* reply_text.
Answering == task.pc \in {"typing", "completion", "completed"}

\* C19: when every send to the chat succeeds, each text message gets
\* exactly one reply, and gets it eventually. A handler in flight has
\* delivered nothing yet and ends by delivering its one text; a
\* rate-limited message ends with the wait notice delivered, an accepted
\* one with the answer or one fallback text delivered.
C19_ExactlyOneReply ==
    /\ [](task.pc # "idle" => sent = <<>>)
    /\ [][/\ task.pc # "idle" /\ task'.pc = "idle" => sent' = <<task.msg>>
          /\ \A u \in Users :
                MessageStep(u) => IF CheckAccepts(u) THEN Answering'
                                  ELSE task' = Suspended("reply", u, "wait")
          /\ Answering /\ task' # task
                => \/ Answering'
                   \/ task'.pc = "reply" /\ task'.msg \in {"answer"} \cup Fallbacks]_vars
    /\ task.pc # "idle" ~> (task = idle /\ Len(sent) = 1)

\* An accepted message was answered with exactly one text, a fallback.
C19_Witness ==
    /\ task = idle
    /\ Len(sent) = 1
    /\ sent[1] \in Fallbacks
    /\ accepted[last_request.user] # {}

====
